---- MODULE Spec2Model ----
(***************************************************************************)
(* Solana staking lifecycle (functions/core.js, functions/utils.js and the *)
(* entry scripts): create -> delegate -> deactivate -> withdraw, and the   *)
(* delegator scan.  One run of one entry flow is modelled, every network   *)
(* call as an issue step followed by a resolve or a reject step, together  *)
(* with the cluster state the calls read and change.                       *)
(***************************************************************************)
EXTENDS Integers, Sequences, FiniteSets, TLC

(* ---------------------------- bounds ---------------------------------- *)
KeyLen == 2          \* bytes of a public key (32 on the cluster)
ByteBase == 2        \* values of one byte (256 on the cluster)
NumVoteKeys == 3     \* distinct vote accounts of the cluster
MaxValidators == 2   \* longest 'current' list of a validator snapshot
MaxDelinquent == 1   \* longest 'delinquent' list of a validator snapshot
MaxAccounts == 2     \* stake-program accounts of the cluster
MaxDeposits == 1     \* transfers a third party makes into the stake account
MaxEpochs == 1       \* epoch boundaries that pass once the stake is delegated
MaxRentSteps == 2    \* rent-exemption minimum is 0..MaxRentSteps rent steps

(* ------------------------ program constants --------------------------- *)
LAMPORTS_PER_SOL == 1000000000
DATA_SIZE == 200
MEMCMP_OFFSET == 124
AIRDROP_SOL == 1

RentStep == 3 * (LAMPORTS_PER_SOL \div 10)
DepositUnit == LAMPORTS_PER_SOL \div 1000
RentValues == {k * RentStep : k \in 0..MaxRentSteps}

(* ------------------------------ keys ---------------------------------- *)
NoKey == <<>>

RECURSIVE Pow(_, _)
Pow(b, n) == IF n = 0 THEN 1 ELSE b * Pow(b, n - 1)

\* bs58 decode of an address string into the KeyLen bytes of a PublicKey
\* (big endian); an address string is modelled by the number it denotes.
Base58Decode(s) ==
  [i \in 1..KeyLen |-> (s \div Pow(ByteBase, KeyLen - i)) % ByteBase]

\* PublicKey.toBase58 / toJSON: the address string of the key bytes
RECURSIVE Base58EncodeFrom(_, _)
Base58EncodeFrom(bytes, acc) ==
  IF bytes = <<>> THEN acc
  ELSE Base58EncodeFrom(Tail(bytes), acc * ByteBase + Head(bytes))
Base58Encode(bytes) == Base58EncodeFrom(bytes, 0)

ValidAddress(s) == s >= 0 /\ s < Pow(ByteBase, KeyLen)

\* the public keys Keypair.generate() may produce: a run generates two key
\* pairs, and either of these keys may come first
GeneratedKeys == {Base58Decode(Pow(ByteBase, KeyLen) - 1),
                  Base58Decode(Pow(ByteBase, KeyLen) - 2)}
\* the address strings of the cluster's vote accounts
VoteAddresses == 0..(NumVoteKeys - 1)

(* --------------------- transaction construction ----------------------- *)
\* new Authorized(staker, withdrawer)
Authorized(staker, withdrawer) == [staker |-> staker, withdrawer |-> withdrawer]
\* new Lockup(unixTimestamp, epoch, custodian)
Lockup(unixTimestamp, epoch, custodian) ==
  [unixTimestamp |-> unixTimestamp, epoch |-> epoch, custodian |-> custodian]

\* amountToStake = minimumRent + 0.5 * LAMPORTS_PER_SOL
AmountToStakeNoRent(minimumRent) == LAMPORTS_PER_SOL \div 2
AmountToStake(minimumRent) == minimumRent + (LAMPORTS_PER_SOL \div 2)

\* StakeProgram.createAccount({...}) signed by [wallet, stakeAccount]
BuildCreateStakeAuthority(walletPublicKey, stakeAccountPublicKey, lamports) ==
  [kind |-> "create",
   authorized |-> Authorized(walletPublicKey, stakeAccountPublicKey),
   fromPubkey |-> walletPublicKey,
   lamports |-> lamports,
   lockup |-> Lockup(0, 0, walletPublicKey),
   stakePubkey |-> stakeAccountPublicKey,
   signers |-> {walletPublicKey, stakeAccountPublicKey}]
BuildCreate(walletPublicKey, stakeAccountPublicKey, lamports) ==
  [kind |-> "create",
   authorized |-> Authorized(walletPublicKey, walletPublicKey),
   fromPubkey |-> walletPublicKey,
   lamports |-> lamports,
   lockup |-> Lockup(0, 0, walletPublicKey),
   stakePubkey |-> stakeAccountPublicKey,
   signers |-> {walletPublicKey, stakeAccountPublicKey}]

\* StakeProgram.delegate({...}) signed by [wallet]
BuildDelegate(stakeAccountPublicKey, walletPublicKey, votePubkey) ==
  [kind |-> "delegate",
   stakePubkey |-> stakeAccountPublicKey,
   authorizedPubkey |-> walletPublicKey,
   votePubkey |-> votePubkey,
   signers |-> {walletPublicKey}]

\* StakeProgram.deactivate({...}) signed by [wallet]
BuildDeactivateStakeKey(stakeAccountPublicKey, walletPublicKey) ==
  [kind |-> "deactivate",
   stakePubkey |-> stakeAccountPublicKey,
   authorizedPubkey |-> stakeAccountPublicKey,
   signers |-> {walletPublicKey}]
BuildDeactivate(stakeAccountPublicKey, walletPublicKey) ==
  [kind |-> "deactivate",
   stakePubkey |-> stakeAccountPublicKey,
   authorizedPubkey |-> walletPublicKey,
   signers |-> {walletPublicKey}]

\* StakeProgram.withdraw({...}) signed by [wallet]
BuildWithdrawLessContribution(stakeAccountPublicKey, walletPublicKey, stakeBalance) ==
  [kind |-> "withdraw",
   stakePubkey |-> stakeAccountPublicKey,
   authorizedPubkey |-> walletPublicKey,
   toPubkey |-> walletPublicKey,
   lamports |-> stakeBalance - (LAMPORTS_PER_SOL \div 2),
   signers |-> {walletPublicKey}]
BuildWithdrawPartial(stakeAccountPublicKey, walletPublicKey, stakeBalance) ==
  [kind |-> "withdraw",
   stakePubkey |-> stakeAccountPublicKey,
   authorizedPubkey |-> walletPublicKey,
   toPubkey |-> walletPublicKey,
   lamports |-> stakeBalance \div 2,
   signers |-> {walletPublicKey}]
BuildWithdraw(stakeAccountPublicKey, walletPublicKey, stakeBalance) ==
  [kind |-> "withdraw",
   stakePubkey |-> stakeAccountPublicKey,
   authorizedPubkey |-> walletPublicKey,
   toPubkey |-> walletPublicKey,
   lamports |-> stakeBalance,
   signers |-> {walletPublicKey}]

(* --------------------------- cluster state ---------------------------- *)
NoEpoch == 0 - 1
\* the stake account of the run before it is created, and after it is drained
NoStakeAccount ==
  [exists |-> FALSE, lamports |-> 0, rentReserve |-> 0,
   staker |-> NoKey, withdrawer |-> NoKey, custodian |-> NoKey,
   voter |-> NoKey, activationEpoch |-> NoEpoch, deactivationEpoch |-> NoEpoch]

\* state string of connection.getStakeActivation for account a in epoch e
StakeActivation(a, e) ==
  IF ~a.exists \/ a.activationEpoch = NoEpoch THEN "inactive"
  ELSE IF a.deactivationEpoch # NoEpoch
       THEN IF a.deactivationEpoch = a.activationEpoch \/ e > a.deactivationEpoch
            THEN "inactive" ELSE "deactivating"
       ELSE IF e = a.activationEpoch THEN "activating" ELSE "active"

\* does the cluster accept transaction tx, the stake account at address addr
\* being a, the fee payer holding walletLamports, rent being the
\* rent-exemption minimum of a stake account, in epoch e
TxAccepted(tx, addr, a, walletLamports, rent, e) ==
  /\ tx.stakePubkey = addr
  /\ CASE tx.kind = "create" ->
            /\ ~a.exists
            /\ tx.signers = {tx.fromPubkey, tx.stakePubkey}
            /\ tx.lamports >= rent
            /\ walletLamports >= tx.lamports
       [] tx.kind = "delegate" ->
            /\ a.exists
            /\ tx.authorizedPubkey = a.staker
            /\ tx.authorizedPubkey \in tx.signers
            /\ StakeActivation(a, e) = "inactive"
       [] tx.kind = "deactivate" ->
            /\ a.exists
            /\ tx.authorizedPubkey = a.staker
            /\ tx.authorizedPubkey \in tx.signers
            /\ StakeActivation(a, e) \in {"activating", "active"}
       [] tx.kind = "withdraw" ->
            /\ a.exists
            /\ tx.authorizedPubkey = a.withdrawer
            /\ tx.authorizedPubkey \in tx.signers
            /\ StakeActivation(a, e) = "inactive"
            /\ tx.lamports <= a.lamports
            /\ (tx.lamports = a.lamports \/ a.lamports - tx.lamports >= a.rentReserve)
       [] OTHER -> FALSE

\* the stake account after the cluster has executed tx
ApplyTx(tx, a, rent, e) ==
  CASE tx.kind = "create" ->
         [exists |-> TRUE, lamports |-> tx.lamports, rentReserve |-> rent,
          staker |-> tx.authorized.staker, withdrawer |-> tx.authorized.withdrawer,
          custodian |-> tx.lockup.custodian,
          voter |-> NoKey, activationEpoch |-> NoEpoch, deactivationEpoch |-> NoEpoch]
    [] tx.kind = "delegate" ->
         [a EXCEPT !.voter = tx.votePubkey, !.activationEpoch = e,
                   !.deactivationEpoch = NoEpoch]
    [] tx.kind = "deactivate" -> [a EXCEPT !.deactivationEpoch = e]
    [] tx.kind = "withdraw" ->
         IF tx.lamports = a.lamports THEN NoStakeAccount
         ELSE [a EXCEPT !.lamports = a.lamports - tx.lamports]
    [] OTHER -> a

\* lamports the fee payer holds after the cluster has executed tx
WalletAfter(tx, walletLamports) ==
  CASE tx.kind = "create" -> walletLamports - tx.lamports
    [] tx.kind = "withdraw" -> walletLamports + tx.lamports
    [] OTHER -> walletLamports

(* --------------------------- cluster queries -------------------------- *)
Front(q) == SubSeq(q, 1, Len(q) - 1)
Last(q) == q[Len(q)]

\* sequences of length at most n over set S
RECURSIVE SeqsUpTo(_, _)
SeqsUpTo(S, n) ==
  IF n = 0 THEN {<<>>}
  ELSE LET shorter == SeqsUpTo(S, n - 1)
       IN shorter \cup {Append(q, x) : q \in {r \in shorter : Len(r) = n - 1},
                                         x \in S}
NoRepeat(q) == \A i, j \in 1..Len(q) : q[i] = q[j] => i = j

\* responses of connection.getVoteAccounts(): entries carry votePubkey, an
\* address string
VoteAccountSnapshots ==
  {[current |-> [i \in 1..Len(c) |-> [votePubkey |-> c[i]]],
    delinquent |-> [i \in 1..d |-> [votePubkey |-> 0]]] :
      c \in {q \in SeqsUpTo(VoteAddresses, MaxValidators) : NoRepeat(q)},
      d \in 0..MaxDelinquent}

\* the record data of a stake-program account: its length, and its bytes from
\* MEMCMP_OFFSET on (all other bytes are zero)
DataSizes == {DATA_SIZE, DATA_SIZE + 1}
\* the accounts delegate to one of the first two vote accounts, whose keys
\* differ in their last byte only
ProgramAccounts ==
  {[size |-> n, tail |-> Base58Decode(v)] : n \in DataSizes, v \in {0, 1}}
\* the accounts owned by the stake program, in the order the cluster lists
\* them, each under its own address
ProgramAccountLists ==
  {[i \in 1..Len(q) |-> [pubkey |-> i, size |-> q[i].size, tail |-> q[i].tail]] :
     q \in SeqsUpTo(ProgramAccounts, MaxAccounts)}

\* byte i (from 0) of the data of account a
DataByte(a, i) ==
  IF i >= MEMCMP_OFFSET /\ i < MEMCMP_OFFSET + Len(a.tail)
  THEN a.tail[i - MEMCMP_OFFSET + 1] ELSE 0

\* the cluster's dataSize filter
DataSizeMatch(a, dataSize) == a.size = dataSize
\* the cluster's memcmp filter: bytes (an address string) is decoded, and
\* compared with the data from offset on
MemcmpMatch(a, offset, bytes) ==
  LET want == Base58Decode(bytes)
  IN /\ offset + Len(want) <= a.size
     /\ \A i \in 1..Len(want) : DataByte(a, offset + i - 1) = want[i]

\* the filters getDelegatorsByValidator sends with getProgramAccounts
ScanFiltersNoSize(VOTE_PUB_KEY) ==
  [dataSize |-> {}, offset |-> MEMCMP_OFFSET, bytes |-> Base58Encode(VOTE_PUB_KEY)]
ScanFilters(VOTE_PUB_KEY) ==
  [dataSize |-> {DATA_SIZE}, offset |-> MEMCMP_OFFSET,
   bytes |-> Base58Encode(VOTE_PUB_KEY)]

Matches(a, filters) ==
  /\ \A n \in filters.dataSize : DataSizeMatch(a, n)
  /\ MemcmpMatch(a, filters.offset, filters.bytes)

\* response of connection.getProgramAccounts(STAKE_PROGRAM_ID, {filters})
GetProgramAccounts(list, filters) ==
  SelectSeq(list, LAMBDA a : Matches(a, filters))

\* new PublicKey(value): <<key>>, or <<>> when the constructor throws
NewPublicKey(value) ==
  CASE value.kind = "PublicKey" -> <<value.key>>
    [] value.kind = "string" ->
         IF ValidAddress(value.str) THEN <<Base58Decode(value.str)>> ELSE <<>>
    [] OTHER -> <<>>

Undefined == [kind |-> "undefined", str |-> 0, key |-> NoKey]
AddressString(str) == [kind |-> "string", str |-> str, key |-> NoKey]
PublicKeyObject(key) == [kind |-> "PublicKey", str |-> 0, key |-> key]

\* validators.current[0]; <<>> when the lookup of votePubkey throws
SelectValidatorUnchecked(validators) ==
  IF Len(validators.current) = 0 THEN <<NoKey>>
  ELSE NewPublicKey(AddressString(validators.current[1].votePubkey))
SelectValidatorLast(validators) ==
  IF Len(validators.current) = 0 THEN <<>>
  ELSE NewPublicKey(AddressString(Last(validators.current).votePubkey))
SelectValidator(validators) ==
  IF Len(validators.current) = 0 THEN <<>>
  ELSE NewPublicKey(AddressString(validators.current[1].votePubkey))

\* requestAirdrop(connection, walletPublicKey, amount): lamports requested
AirdropLamportsUnscaled(amount) == amount
AirdropLamports(amount) == amount * LAMPORTS_PER_SOL

(* ------------------------------- state -------------------------------- *)
VARIABLES
  flow,          \* the entry flow of the run
  stack,         \* the functions being executed, innermost last
  pc,            \* position in the innermost function
  awaiting,      \* TRUE while the network call at pc is outstanding
  frames,        \* wallet and stakeAccount of each lifecycle function
  results,       \* value each lifecycle function returned: <<>> or <<value>>
  minimumRent, amountToStake,         \* createStakeAccount
  validators,                         \* delegateStake: <<>> or <<snapshot>>
  selectedValidatorPublicKey,         \* delegateStake
  stakeBalance,                       \* withdrawStake
  mainSelected,                       \* index.js main: selectedValidatorPublicKey
  validatorPublicKey,                 \* getDelegatorsByValidator: its argument
  VOTE_PUB_KEY, accounts,             \* getDelegatorsByValidator
  calls,         \* the network calls issued, in order
  airdrops,      \* the airdrop requests issued
  submitted,     \* the transactions submitted, in order
  confirmed,     \* the transactions confirmed, in order
  balanceReads,  \* the balances read: who read, the value, transactions confirmed then
  rejected,      \* the awaited calls the network failed, by label
  statusLog,     \* console: the stake account states logged
  scanLog,       \* console: the delegator count and the sample logged
  errorLog,      \* console.error of runMain's catch
  detached,      \* the status query delegateStake does not await
  unhandled,     \* a rejection no handler caught
  chainStake,    \* cluster: the stake account at the run's stake address
  walletLamports,\* cluster: balance of the run's wallet
  clusterRent,   \* cluster: rent-exemption minimum of a stake account
  epoch,         \* cluster: current epoch
  deposits,      \* transfers made by third parties so far
  programAccounts \* cluster: the stake program's accounts, as the scan saw them

ctl == <<flow, stack, pc, awaiting>>
loc == <<frames, results, minimumRent, amountToStake, validators,
         selectedValidatorPublicKey, stakeBalance, mainSelected,
         validatorPublicKey, VOTE_PUB_KEY, accounts>>
hist == <<calls, airdrops, submitted, confirmed, balanceReads, rejected>>
cons == <<statusLog, scanLog, errorLog>>
det == <<detached, unhandled>>
chain == <<chainStake, walletLamports, clusterRent, epoch, deposits, programAccounts>>
vars == <<ctl, loc, hist, cons, det, chain>>

StageFns == {"createStakeAccount", "delegateStake", "deactivateStake", "withdrawStake"}
\* the entry scripts: index.js and the files of mains/
Scripts == {"create_stake_account", "delegate_stake", "withdraw_stake",
            "get_delegators_by_validator", "index"}
\* the scripts, and a caller invoking the exported getDelegatorsByValidator
\* with an address
Flows == Scripts \cup {"ScanDelegators"}

\* does the module of the flow load: create_stake_account.js declares
\* establishConnection, main and runMain twice, which is a SyntaxError, so
\* none of its statements is executed
ModuleLoads(fl) == fl # "create_stake_account"

NoKeys == [wallet |-> NoKey, stakeAccount |-> NoKey]

\* the address strings a caller may pass: the vote accounts, and one string
\* that is no address
InputAddresses == VoteAddresses \cup {Pow(ByteBase, KeyLen)}

Init ==
  /\ flow \in Flows
  /\ stack = <<"runMain">>
  /\ pc = "runMain"
  /\ awaiting = FALSE
  /\ frames = [f \in StageFns |-> NoKeys]
  /\ results = [f \in StageFns |-> <<>>]
  /\ minimumRent = 0
  /\ amountToStake = 0
  /\ validators = <<>>
  /\ selectedValidatorPublicKey = NoKey
  /\ stakeBalance = 0
  /\ mainSelected = NoKey
  /\ validatorPublicKey \in
       IF flow = "ScanDelegators" THEN {AddressString(a) : a \in InputAddresses}
       ELSE {Undefined}
  /\ VOTE_PUB_KEY = NoKey
  /\ accounts = <<>>
  /\ calls = <<>>
  /\ airdrops = <<>>
  /\ submitted = <<>>
  /\ confirmed = <<>>
  /\ balanceReads = <<>>
  /\ rejected = <<>>
  /\ statusLog = <<>>
  /\ scanLog = <<>>
  /\ errorLog = <<>>
  /\ detached = "none"
  /\ unhandled = FALSE
  /\ chainStake = NoStakeAccount
  /\ walletLamports = 0
  /\ clusterRent \in RentValues
  /\ epoch = 0
  /\ deposits = 0
  /\ programAccounts = <<>>

(* --------------------------- control flow ----------------------------- *)
\* the function each lifecycle function awaits first
CalleeSkipDelegate(f) ==
  CASE f = "withdrawStake" -> "deactivateStake"
    [] f = "deactivateStake" -> "createStakeAccount"
    [] OTHER -> "createStakeAccount"
Callee(f) ==
  CASE f = "withdrawStake" -> "deactivateStake"
    [] f = "deactivateStake" -> "delegateStake"
    [] OTHER -> "createStakeAccount"

\* the function main() of each entry script calls first
EntryFunction(fl) ==
  CASE fl = "delegate_stake" -> "delegateStake"
    [] fl = "withdraw_stake" -> "withdrawStake"
    [] fl = "index" -> "getValidators"
    [] fl \in {"get_delegators_by_validator", "ScanDelegators"} -> "getDelegatorsByValidator"
    [] OTHER -> "none"

\* where caller goes on when the callee it awaits has returned; main() has
\* nothing left to do after its last call, and runMain neither
ContinuationSkipsLifecycle(caller, callee) ==
  CASE caller = "delegateStake" -> "d_getVoteAccounts"
    [] caller = "deactivateStake" -> "x_sendDeactivate"
    [] caller = "withdrawStake" -> "w_getBalance"
    [] caller = "main" /\ flow = "index" /\ callee = "getValidators" -> "main_getDelegators"
    [] OTHER -> "exit"
Continuation(caller, callee) ==
  CASE caller = "delegateStake" -> "d_getVoteAccounts"
    [] caller = "deactivateStake" -> "x_sendDeactivate"
    [] caller = "withdrawStake" -> "w_getBalance"
    [] caller = "main" /\ flow = "index" /\ callee = "getValidators" -> "main_withdrawStake"
    [] caller = "main" /\ flow = "index" /\ callee = "withdrawStake" -> "main_getDelegators"
    [] OTHER -> "exit"

\* where control goes when the call awaited at label l rejects: no lifecycle
\* function catches, so the rejection reaches the catch of runMain
AwaitRejectedRetried(l) == IF l = "w_sendWithdraw" THEN "w_sendWithdraw" ELSE "catch"
AwaitRejectedSwallowed(l) == IF l = "x_sendDeactivate" THEN "x_getStatus" ELSE "catch"
AwaitRejected(l) == "catch"

Outstanding == (IF awaiting THEN 1 ELSE 0) + (IF detached = "pending" THEN 1 ELSE 0)

\* the code of the run executes to its next await without interruption: a
\* callback of another promise runs, and time passes on the cluster, only
\* while the run waits for a call or is over
Suspended == awaiting \/ pc = "exit"

\* the stake address of the run, as the cluster knows it
StakeAddress == frames["createStakeAccount"].stakeAccount
AccountAt(pubkey) == IF pubkey = StakeAddress THEN chainStake ELSE NoStakeAccount

\* a call is issued at label l
Issue(l, op) ==
  /\ pc = l
  /\ ~awaiting
  /\ awaiting' = TRUE
  /\ calls' = Append(calls, op)
  /\ UNCHANGED <<flow, stack, pc>>

\* the call awaited at label l resolves and the function goes on at next
Resolve(l, next) ==
  /\ pc = l
  /\ awaiting
  /\ awaiting' = FALSE
  /\ pc' = next
  /\ UNCHANGED <<flow, stack>>

StackAfterReturn(caller, callee) ==
  IF Continuation(caller, callee) = "exit" THEN <<>> ELSE Front(stack)

\* the value a lifecycle function returns reaches the caller awaiting it
ReturnFromReplaced(f, value) ==
  LET caller == stack[Len(stack) - 1]
      fresh == [value EXCEPT !.stakeAccount = value.wallet]
  IN /\ results' = [results EXCEPT ![f] = <<fresh>>]
     /\ stack' = StackAfterReturn(caller, f)
     /\ pc' = Continuation(caller, f)
     /\ frames' = IF caller \in StageFns
                  THEN [frames EXCEPT ![caller] =
                          [wallet |-> fresh.wallet, stakeAccount |-> fresh.stakeAccount]]
                  ELSE frames
     /\ mainSelected' = IF caller = "main" /\ flow = "index"
                        THEN fresh.selectedValidatorPublicKey ELSE mainSelected
     /\ UNCHANGED <<flow, awaiting>>
ReturnFrom(f, value) ==
  LET caller == stack[Len(stack) - 1]
  IN /\ results' = [results EXCEPT ![f] = <<value>>]
     /\ stack' = StackAfterReturn(caller, f)
     /\ pc' = Continuation(caller, f)
     /\ frames' = IF caller \in StageFns
                  THEN [frames EXCEPT ![caller] =
                          [wallet |-> value.wallet, stakeAccount |-> value.stakeAccount]]
                  ELSE frames
     /\ mainSelected' = IF caller = "main" /\ flow = "index"
                        THEN value.selectedValidatorPublicKey ELSE mainSelected
     /\ UNCHANGED <<flow, awaiting>>

\* an exception leaves every function of the run: runMain's catch logs it and
\* the flow ends
Throw(err) ==
  /\ pc' = "exit"
  /\ stack' = <<>>
  /\ awaiting' = FALSE
  /\ errorLog' = Append(errorLog, err)
  /\ UNCHANGED flow

PlainIssue(l, op) ==
  /\ Issue(l, op)
  /\ UNCHANGED <<loc, airdrops, submitted, confirmed, balanceReads, rejected, cons, det, chain>>

\* sendAndConfirmTransaction(connection, tx, signers) is called at label l
SendIssue(l, op, tx) ==
  /\ Issue(l, op)
  /\ submitted' = Append(submitted, tx)
  /\ UNCHANGED <<loc, airdrops, confirmed, balanceReads, rejected, cons, det, chain>>

\* the transaction sent at label l is executed by the cluster and confirmed
SendResolve(l, next) ==
  /\ Resolve(l, next)
  /\ LET tx == Last(submitted)
     IN /\ TxAccepted(tx, StakeAddress, chainStake, walletLamports, clusterRent, epoch)
        /\ chainStake' = ApplyTx(tx, chainStake, clusterRent, epoch)
        /\ walletLamports' = WalletAfter(tx, walletLamports)
        /\ confirmed' = Append(confirmed, tx)
  /\ UNCHANGED <<loc, calls, airdrops, submitted, balanceReads, rejected, cons, det,
                 clusterRent, epoch, deposits, programAccounts>>

\* getStakeAccountStatus(connection, pubkey) awaited at label l resolves
StatusResolve(l, next, pubkey) ==
  /\ Resolve(l, next)
  /\ statusLog' = Append(statusLog,
                         [by |-> l, state |-> StakeActivation(AccountAt(pubkey), epoch)])
  /\ UNCHANGED <<loc, hist, scanLog, errorLog, det, chain>>

(* ---------------------- index.js and the scripts ---------------------- *)
\* the module is refused when it is loaded: the process ends with the
\* SyntaxError and runMain is never called
moduleLoadFails ==
  /\ pc = "runMain"
  /\ ~ModuleLoads(flow)
  /\ pc' = "crashed"
  /\ stack' = <<>>
  /\ UNCHANGED <<flow, awaiting, loc, hist, cons, det, chain>>

runMain ==
  /\ pc = "runMain"
  /\ ModuleLoads(flow)
  /\ stack' = <<"runMain", "main">>
  /\ pc' = "main"
  /\ UNCHANGED <<flow, awaiting, loc, hist, cons, det, chain>>

\* main() calls the first function of its flow
main ==
  /\ pc = "main"
  /\ stack' = Append(stack, EntryFunction(flow))
  /\ pc' = EntryFunction(flow)
  /\ UNCHANGED <<flow, awaiting, loc, hist, cons, det, chain>>

\* index.js: const { selectedValidatorPublicKey } = await withdrawStake(connection)
main_withdrawStake ==
  /\ pc = "main_withdrawStake"
  /\ stack' = Append(stack, "withdrawStake")
  /\ pc' = "withdrawStake"
  /\ UNCHANGED <<flow, awaiting, loc, hist, cons, det, chain>>

\* index.js: await getDelegatorsByValidator(connection, selectedValidatorPublicKey)
main_getDelegatorsByValidator ==
  /\ pc = "main_getDelegators"
  /\ stack' = Append(stack, "getDelegatorsByValidator")
  /\ pc' = "getDelegatorsByValidator"
  /\ validatorPublicKey' = PublicKeyObject(mainSelected)
  /\ UNCHANGED <<flow, awaiting, frames, results, minimumRent, amountToStake,
                 validators, selectedValidatorPublicKey, stakeBalance, mainSelected,
                 VOTE_PUB_KEY, accounts, hist, cons, det, chain>>

\* the call awaited by the run rejects
reject ==
  /\ awaiting
  /\ rejected' = Append(rejected, pc)
  /\ IF AwaitRejected(pc) = "catch"
     THEN Throw(pc)
     ELSE /\ pc' = AwaitRejected(pc)
          /\ awaiting' = FALSE
          /\ UNCHANGED <<flow, stack, errorLog>>
  /\ UNCHANGED <<loc, calls, airdrops, submitted, confirmed, balanceReads,
                 statusLog, scanLog, det, chain>>

(* --------------------------- getValidators ---------------------------- *)
getValidators_issue ==
  /\ pc = "getValidators"
  /\ PlainIssue("getValidators", "getValidators.getVoteAccounts")

\* the counts of the snapshot are printed and kept nowhere
getValidators_resolve ==
  /\ \E snapshot \in VoteAccountSnapshots :
       /\ Len(snapshot.current) + Len(snapshot.delinquent) >= 0
       /\ Resolve("getValidators", "v_return")
  /\ UNCHANGED <<loc, hist, cons, det, chain>>

getValidators_return ==
  /\ pc = "v_return"
  /\ stack' = StackAfterReturn(stack[Len(stack) - 1], "getValidators")
  /\ pc' = Continuation(stack[Len(stack) - 1], "getValidators")
  /\ UNCHANGED <<flow, awaiting, loc, hist, cons, det, chain>>

(* ------------------------- createStakeAccount ------------------------- *)
\* const wallet = createWallet()
createStakeAccount_createWallet ==
  /\ pc = "createStakeAccount"
  /\ \E k \in GeneratedKeys :
       frames' = [frames EXCEPT !["createStakeAccount"].wallet = k]
  /\ pc' = "c_requestAirdrop"
  /\ UNCHANGED <<flow, stack, awaiting, results, minimumRent, amountToStake,
                 validators, selectedValidatorPublicKey, stakeBalance, mainSelected,
                 validatorPublicKey, VOTE_PUB_KEY, accounts, hist, cons, det, chain>>

requestAirdrop_issue ==
  /\ Issue("c_requestAirdrop", "createStakeAccount.requestAirdrop")
  /\ airdrops' = Append(airdrops, [to |-> frames["createStakeAccount"].wallet,
                                   lamports |-> AirdropLamports(AIRDROP_SOL)])
  /\ UNCHANGED <<loc, submitted, confirmed, balanceReads, rejected, cons, det, chain>>

requestAirdrop_resolve ==
  /\ Resolve("c_requestAirdrop", "c_getLatestBlockhash")
  /\ UNCHANGED <<loc, hist, cons, det, chain>>

getLatestBlockhash_issue ==
  PlainIssue("c_getLatestBlockhash", "createStakeAccount.getLatestBlockhash")

getLatestBlockhash_resolve ==
  /\ Resolve("c_getLatestBlockhash", "c_confirmTransaction")
  /\ UNCHANGED <<loc, hist, cons, det, chain>>

confirmTransaction_issue ==
  PlainIssue("c_confirmTransaction", "createStakeAccount.confirmTransaction")

\* the wait returns: the airdrop was executed (landed) or the cluster reports
\* it with an error; the value returned is not looked at
confirmTransaction_resolve ==
  /\ Resolve("c_confirmTransaction", "c_getMinimumBalance")
  /\ \E landed \in BOOLEAN :
       walletLamports' = IF landed THEN walletLamports + Last(airdrops).lamports
                         ELSE walletLamports
  /\ UNCHANGED <<loc, hist, cons, det, chainStake, clusterRent, epoch, deposits,
                 programAccounts>>

\* const stakeAccount = createWallet(); getMinimumBalanceForRentExemption(space)
getMinimumBalanceForRentExemption_issue ==
  /\ Issue("c_getMinimumBalance", "createStakeAccount.getMinimumBalanceForRentExemption")
  /\ \E k \in GeneratedKeys \ {frames["createStakeAccount"].wallet} :
       frames' = [frames EXCEPT !["createStakeAccount"].stakeAccount = k]
  /\ UNCHANGED <<results, minimumRent, amountToStake, validators,
                 selectedValidatorPublicKey, stakeBalance, mainSelected,
                 validatorPublicKey, VOTE_PUB_KEY, accounts,
                 airdrops, submitted, confirmed, balanceReads, rejected, cons, det, chain>>

getMinimumBalanceForRentExemption_resolve ==
  /\ Resolve("c_getMinimumBalance", "c_sendCreate")
  /\ minimumRent' = clusterRent
  /\ amountToStake' = AmountToStake(clusterRent)
  /\ UNCHANGED <<frames, results, validators, selectedValidatorPublicKey,
                 stakeBalance, mainSelected, validatorPublicKey, VOTE_PUB_KEY,
                 accounts, hist, cons, det, chain>>

createStakeAccount_send ==
  SendIssue("c_sendCreate", "createStakeAccount.sendAndConfirmTransaction",
            BuildCreate(frames["createStakeAccount"].wallet,
                        frames["createStakeAccount"].stakeAccount, amountToStake))

createStakeAccount_confirmed == SendResolve("c_sendCreate", "c_getBalance")

\* the balance of pubkey is read at label l
BalanceRead(l, pubkey) ==
  [by |-> l, value |-> AccountAt(pubkey).lamports, after |-> Len(confirmed)]

createStakeAccount_getBalance_issue ==
  PlainIssue("c_getBalance", "createStakeAccount.getBalance")

createStakeAccount_getBalance_resolve ==
  /\ Resolve("c_getBalance", "c_getStatus")
  /\ balanceReads' = Append(balanceReads,
       BalanceRead("c_getBalance", frames["createStakeAccount"].stakeAccount))
  /\ UNCHANGED <<loc, calls, airdrops, submitted, confirmed, rejected, cons, det, chain>>

createStakeAccount_getStatus_issue ==
  PlainIssue("c_getStatus", "createStakeAccount.getStakeActivation")

createStakeAccount_getStatus_resolve ==
  StatusResolve("c_getStatus", "c_return", frames["createStakeAccount"].stakeAccount)

\* return { wallet, stakeAccount }
createStakeAccount_return ==
  /\ pc = "c_return"
  /\ ReturnFrom("createStakeAccount",
                [wallet |-> frames["createStakeAccount"].wallet,
                 stakeAccount |-> frames["createStakeAccount"].stakeAccount,
                 selectedValidatorPublicKey |-> NoKey])
  /\ UNCHANGED <<minimumRent, amountToStake, validators, selectedValidatorPublicKey,
                 stakeBalance, validatorPublicKey, VOTE_PUB_KEY, accounts,
                 hist, cons, det, chain>>

\* a lifecycle function awaits the function of the stage before it
callPreviousStage ==
  /\ pc \in {"delegateStake", "deactivateStake", "withdrawStake"}
  /\ stack' = Append(stack, Callee(pc))
  /\ pc' = Callee(pc)
  /\ UNCHANGED <<flow, awaiting, loc, hist, cons, det, chain>>

(* ---------------------------- delegateStake --------------------------- *)
delegateStake_getVoteAccounts_issue ==
  PlainIssue("d_getVoteAccounts", "delegateStake.getVoteAccounts")

\* the snapshot arrives; validators.current[0] is selected, or the lookup of
\* its votePubkey throws
delegateStake_getVoteAccounts_resolve ==
  /\ pc = "d_getVoteAccounts"
  /\ awaiting
  /\ \E snapshot \in VoteAccountSnapshots :
       /\ validators' = <<snapshot>>
       /\ IF SelectValidator(snapshot) = <<>>
          THEN /\ Throw("d_select")
               /\ UNCHANGED selectedValidatorPublicKey
          ELSE /\ selectedValidatorPublicKey' = SelectValidator(snapshot)[1]
               /\ pc' = "d_sendDelegate"
               /\ awaiting' = FALSE
               /\ UNCHANGED <<flow, stack, errorLog>>
  /\ UNCHANGED <<frames, results, minimumRent, amountToStake, stakeBalance,
                 mainSelected, validatorPublicKey, VOTE_PUB_KEY, accounts,
                 hist, statusLog, scanLog, det, chain>>

delegateStake_send ==
  SendIssue("d_sendDelegate", "delegateStake.sendAndConfirmTransaction",
            BuildDelegate(frames["delegateStake"].stakeAccount,
                          frames["delegateStake"].wallet, selectedValidatorPublicKey))

delegateStake_confirmed == SendResolve("d_sendDelegate", "d_getStatus")

\* getStakeAccountStatus(connection, stakeAccountPublicKey) is called and its
\* promise is dropped: delegateStake goes on without waiting for it
delegateStake_getStatus ==
  /\ pc = "d_getStatus"
  /\ ~awaiting
  /\ calls' = Append(calls, "delegateStake.getStakeActivation")
  /\ detached' = "pending"
  /\ pc' = "d_return"
  /\ UNCHANGED <<flow, stack, awaiting, loc, airdrops, submitted, confirmed,
                 balanceReads, rejected, cons, unhandled, chain>>

\* the dropped status query resolves and its state is logged
detached_resolve ==
  /\ detached = "pending"
  /\ Suspended
  /\ detached' = "resolved"
  /\ statusLog' = Append(statusLog,
       [by |-> "d_getStatus",
        state |-> StakeActivation(AccountAt(frames["delegateStake"].stakeAccount), epoch)])
  /\ UNCHANGED <<ctl, loc, hist, scanLog, errorLog, unhandled, chain>>

\* the dropped status query rejects: no handler is attached to its promise.
\* The runtime reports the unhandled rejection, and depending on its version
\* ends the process or lets it go on.
detached_reject ==
  /\ detached = "pending"
  /\ Suspended
  /\ detached' = "rejected"
  /\ unhandled' = TRUE
  /\ \E ends \in BOOLEAN :
       IF ends THEN /\ pc' = "crashed"
                    /\ awaiting' = FALSE
                    /\ stack' = <<>>
               ELSE UNCHANGED <<pc, awaiting, stack>>
  /\ UNCHANGED <<flow, loc, hist, cons, chain>>

\* return { ...createStakeAccountResult, selectedValidatorPublicKey }; the
\* snapshot, a local of delegateStake, is gone
delegateStake_return ==
  /\ pc = "d_return"
  /\ ReturnFrom("delegateStake",
                [results[Callee("delegateStake")][1] EXCEPT
                   !.selectedValidatorPublicKey = selectedValidatorPublicKey])
  /\ validators' = <<>>
  /\ UNCHANGED <<minimumRent, amountToStake, selectedValidatorPublicKey,
                 stakeBalance, validatorPublicKey, VOTE_PUB_KEY, accounts,
                 hist, cons, det, chain>>

(* --------------------------- deactivateStake -------------------------- *)
deactivateStake_send ==
  SendIssue("x_sendDeactivate", "deactivateStake.sendAndConfirmTransaction",
            BuildDeactivate(frames["deactivateStake"].stakeAccount,
                            frames["deactivateStake"].wallet))

deactivateStake_confirmed == SendResolve("x_sendDeactivate", "x_getStatus")

deactivateStake_getStatus_issue ==
  PlainIssue("x_getStatus", "deactivateStake.getStakeActivation")

deactivateStake_getStatus_resolve ==
  StatusResolve("x_getStatus", "x_return", frames["deactivateStake"].stakeAccount)

\* return delegateStakeResult
deactivateStake_return ==
  /\ pc = "x_return"
  /\ ReturnFrom("deactivateStake", results[Callee("deactivateStake")][1])
  /\ UNCHANGED <<minimumRent, amountToStake, validators, selectedValidatorPublicKey,
                 stakeBalance, validatorPublicKey, VOTE_PUB_KEY, accounts,
                 hist, cons, det, chain>>

(* ---------------------------- withdrawStake --------------------------- *)
withdrawStake_getBalance_issue ==
  PlainIssue("w_getBalance", "withdrawStake.getBalance")

\* const stakeBalance = await connection.getBalance(stakeAccountPublicKey)
withdrawStake_getBalance_resolve ==
  /\ Resolve("w_getBalance", "w_sendWithdraw")
  /\ stakeBalance' = AccountAt(frames["withdrawStake"].stakeAccount).lamports
  /\ balanceReads' = Append(balanceReads,
       BalanceRead("w_getBalance", frames["withdrawStake"].stakeAccount))
  /\ UNCHANGED <<frames, results, minimumRent, amountToStake, validators,
                 selectedValidatorPublicKey, mainSelected, validatorPublicKey,
                 VOTE_PUB_KEY, accounts, calls, airdrops, submitted, confirmed,
                 rejected, cons, det, chain>>

withdrawStake_send ==
  SendIssue("w_sendWithdraw", "withdrawStake.sendAndConfirmTransaction",
            BuildWithdraw(frames["withdrawStake"].stakeAccount,
                          frames["withdrawStake"].wallet, stakeBalance))

withdrawStake_confirmed == SendResolve("w_sendWithdraw", "w_postBalance")

withdrawStake_postBalance_issue ==
  PlainIssue("w_postBalance", "withdrawStake.getBalance")

withdrawStake_postBalance_resolve ==
  /\ Resolve("w_postBalance", "w_return")
  /\ balanceReads' = Append(balanceReads,
       BalanceRead("w_postBalance", frames["withdrawStake"].stakeAccount))
  /\ UNCHANGED <<loc, calls, airdrops, submitted, confirmed, rejected, cons, det, chain>>

\* return deactivateStakeResult
withdrawStake_return ==
  /\ pc = "w_return"
  /\ ReturnFrom("withdrawStake", results[Callee("withdrawStake")][1])
  /\ UNCHANGED <<minimumRent, amountToStake, validators, selectedValidatorPublicKey,
                 stakeBalance, validatorPublicKey, VOTE_PUB_KEY, accounts,
                 hist, cons, det, chain>>

(* ---------------------- getDelegatorsByValidator ---------------------- *)
\* const VOTE_PUB_KEY = new PublicKey(validatorPublicKey)
getDelegatorsByValidator_newPublicKey ==
  /\ pc = "getDelegatorsByValidator"
  /\ IF NewPublicKey(validatorPublicKey) = <<>>
     THEN /\ Throw("s_newPublicKey")
          /\ UNCHANGED VOTE_PUB_KEY
     ELSE /\ VOTE_PUB_KEY' = NewPublicKey(validatorPublicKey)[1]
          /\ pc' = "s_getProgramAccounts"
          /\ UNCHANGED <<flow, stack, awaiting, errorLog>>
  /\ UNCHANGED <<frames, results, minimumRent, amountToStake, validators,
                 selectedValidatorPublicKey, stakeBalance, mainSelected,
                 validatorPublicKey, accounts, hist, statusLog, scanLog, det, chain>>

getProgramAccounts_issue ==
  PlainIssue("s_getProgramAccounts", "getDelegatorsByValidator.getProgramAccounts")

\* accounts[0] when accounts.length is not zero
SampleRecordOfEmpty(found) ==
  <<IF Len(found) # 0 THEN found[1] ELSE [pubkey |-> 0, size |-> 0, tail |-> <<>>]>>
SampleRecord(found) == IF Len(found) # 0 THEN <<found[1]>> ELSE <<>>

\* the matching accounts arrive, their number and the sample are logged, and
\* getDelegatorsByValidator returns
getProgramAccounts_resolve ==
  /\ pc = "s_getProgramAccounts"
  /\ awaiting
  /\ awaiting' = FALSE
  /\ stack' = StackAfterReturn(stack[Len(stack) - 1], "getDelegatorsByValidator")
  /\ pc' = Continuation(stack[Len(stack) - 1], "getDelegatorsByValidator")
  /\ \E list \in ProgramAccountLists :
       LET found == GetProgramAccounts(list, ScanFilters(VOTE_PUB_KEY))
       IN /\ programAccounts' = list
          /\ accounts' = found
          /\ scanLog' = Append(scanLog, [key |-> VOTE_PUB_KEY, count |-> Len(found),
                                         sample |-> SampleRecord(found)])
  /\ UNCHANGED <<flow, frames, results, minimumRent, amountToStake, validators,
                 selectedValidatorPublicKey, stakeBalance, mainSelected,
                 validatorPublicKey, VOTE_PUB_KEY, hist, statusLog, errorLog, det,
                 chainStake, walletLamports, clusterRent, epoch, deposits>>

(* ----------------------------- the cluster ---------------------------- *)
Live == Suspended /\ Outstanding > 0

\* a third party transfers lamports to the stake account
Deposit ==
  /\ Live
  /\ chainStake.exists
  /\ deposits < MaxDeposits
  /\ deposits' = deposits + 1
  /\ chainStake' = [chainStake EXCEPT !.lamports = @ + DepositUnit]
  /\ UNCHANGED <<ctl, loc, hist, cons, det, walletLamports, clusterRent, epoch,
                 programAccounts>>

\* the cluster enters the next epoch; epochs are counted from the one in
\* which the stake is delegated, those before it make no difference
EpochBoundary ==
  /\ Live
  /\ chainStake.activationEpoch # NoEpoch
  /\ epoch < MaxEpochs
  /\ epoch' = epoch + 1
  /\ UNCHANGED <<ctl, loc, hist, cons, det, chainStake, walletLamports,
                 clusterRent, deposits, programAccounts>>

Next ==
  \/ moduleLoadFails
  \/ runMain \/ main \/ main_withdrawStake \/ main_getDelegatorsByValidator
  \/ reject
  \/ getValidators_issue \/ getValidators_resolve \/ getValidators_return
  \/ callPreviousStage
  \/ createStakeAccount_createWallet
  \/ requestAirdrop_issue \/ requestAirdrop_resolve
  \/ getLatestBlockhash_issue \/ getLatestBlockhash_resolve
  \/ confirmTransaction_issue \/ confirmTransaction_resolve
  \/ getMinimumBalanceForRentExemption_issue \/ getMinimumBalanceForRentExemption_resolve
  \/ createStakeAccount_send \/ createStakeAccount_confirmed
  \/ createStakeAccount_getBalance_issue \/ createStakeAccount_getBalance_resolve
  \/ createStakeAccount_getStatus_issue \/ createStakeAccount_getStatus_resolve
  \/ createStakeAccount_return
  \/ delegateStake_getVoteAccounts_issue \/ delegateStake_getVoteAccounts_resolve
  \/ delegateStake_send \/ delegateStake_confirmed
  \/ delegateStake_getStatus \/ detached_resolve \/ detached_reject
  \/ delegateStake_return
  \/ deactivateStake_send \/ deactivateStake_confirmed
  \/ deactivateStake_getStatus_issue \/ deactivateStake_getStatus_resolve
  \/ deactivateStake_return
  \/ withdrawStake_getBalance_issue \/ withdrawStake_getBalance_resolve
  \/ withdrawStake_send \/ withdrawStake_confirmed
  \/ withdrawStake_postBalance_issue \/ withdrawStake_postBalance_resolve
  \/ withdrawStake_return
  \/ getDelegatorsByValidator_newPublicKey
  \/ getProgramAccounts_issue \/ getProgramAccounts_resolve
  \/ Deposit \/ EpochBoundary

Spec == Init /\ [][Next]_vars

(* ------------------------------ claims -------------------------------- *)
LifecycleOrder == <<"create", "delegate", "deactivate", "withdraw">>
LifecycleStates == <<"Uninitialized", "Created", "Delegated", "Deactivated", "Withdrawn">>
\* the lifecycle state: one transition for each confirmed transaction
LifecycleState == LifecycleStates[Len(confirmed) + 1]
RunWallet == frames["createStakeAccount"].wallet
RunStakeAccount == frames["createStakeAccount"].stakeAccount
InvokesWithdraw == flow \in {"withdraw_stake", "index"}
Submitted(kind) == {i \in 1..Len(submitted) : submitted[i].kind = kind}

\* C1: in a run that invokes withdrawStake the transactions submitted are a
\* prefix of create, delegate, deactivate, withdraw in this order; each is
\* submitted only when all those before it are confirmed; and withdrawStake
\* returns only when all four are confirmed.
C1_WithdrawReconstructsInOrder ==
  InvokesWithdraw =>
    /\ Len(submitted) <= Len(LifecycleOrder)
    /\ \A i \in 1..Len(submitted) : submitted[i].kind = LifecycleOrder[i]
    /\ Len(confirmed) <= Len(submitted)
    /\ Len(submitted) <= Len(confirmed) + 1
    /\ \A i \in 1..Len(confirmed) : confirmed[i] = submitted[i]
    /\ (results["withdrawStake"] # <<>> => Len(confirmed) = Len(LifecycleOrder))

C1_Witness ==
  /\ flow = "withdraw_stake"
  /\ results["withdrawStake"] # <<>>
  /\ [i \in 1..Len(confirmed) |-> confirmed[i].kind] = LifecycleOrder

\* the awaited calls whose failure C2 is about
SubmitOrConfirmSteps ==
  {"c_confirmTransaction", "c_sendCreate", "d_sendDelegate", "x_sendDeactivate",
   "w_sendWithdraw"}
FailedSubmitOrConfirm == \E i \in 1..Len(rejected) : rejected[i] \in SubmitOrConfirmSteps

\* C2: once the airdrop confirmation or the submission or confirmation of a
\* lifecycle transaction has failed, the failure has left every function of the
\* run (the flow is over), no further transaction is submitted, and the
\* confirmed transactions, hence the lifecycle state, stay as they were.
C2_FailurePropagates ==
  [][FailedSubmitOrConfirm' =>
       /\ pc' \in {"exit", "crashed"}
       /\ stack' = <<>>
       /\ ~awaiting'
       /\ submitted' = submitted
       /\ confirmed' = confirmed
       /\ results' = results]_vars

C2_Witness ==
  /\ rejected = <<"x_sendDeactivate">>
  /\ pc = "exit"
  /\ LifecycleState = "Delegated"
  /\ Len(submitted) = 3

\* C3: at no point are two network calls of the run outstanding at once.
C3_SingleThreadOfControl == Outstanding <= 1

\* C4: every failure of a network call, the status queries included, is
\* caught and logged by runMain's catch, after which the flow is over; no
\* rejection is left unhandled.
C4_EveryFailureCaught ==
  /\ ~unhandled
  /\ (rejected # <<>> => errorLog = rejected /\ pc = "exit")
  /\ (detached = "rejected" => errorLog = <<"d_getStatus">> /\ pc = "exit")

\* C5: the withdraw transaction asks for exactly the balance that
\* withdrawStake read from the cluster after the deactivate transaction was
\* confirmed, and sends it to the wallet of the run.
C5_WithdrawsObservedBalance ==
  \A i \in Submitted("withdraw") :
    /\ submitted[i].toPubkey = RunWallet
    /\ submitted[i].stakePubkey = RunStakeAccount
    /\ \E j \in 1..Len(balanceReads) :
         /\ balanceReads[j].by = "w_getBalance"
         /\ balanceReads[j].after = 3
         /\ confirmed[3].kind = "deactivate"
         /\ submitted[i].lamports = balanceReads[j].value
         /\ \A k \in (j + 1)..Len(balanceReads) : balanceReads[k].by = "w_postBalance"

\* the amount withdrawn differs from the amount staked at creation and from
\* the balance read before deactivation
C5_Witness ==
  /\ Submitted("withdraw") # {}
  /\ Last(confirmed).kind = "withdraw"
  /\ Last(submitted).lamports # amountToStake
  /\ Last(submitted).lamports # balanceReads[1].value

\* C6: the lamports of the create transaction are the cluster's
\* rent-exemption minimum plus half of LAMPORTS_PER_SOL.
C6_AmountIsRentPlusHalfSol ==
  \A i \in Submitted("create") :
    /\ 2 * (submitted[i].lamports - clusterRent) = LAMPORTS_PER_SOL
    /\ submitted[i].lamports >= clusterRent
    /\ minimumRent = clusterRent

C6_Witness ==
  /\ Submitted("create") # {}
  /\ clusterRent > 0
  /\ LifecycleState = "Created"

\* C7: the create transaction names the wallet as stake and as withdraw
\* authority, carries a lockup of epoch 0, timestamp 0 and the wallet as
\* custodian, is funded by the wallet and creates the stake account.
C7_CreateInstruction ==
  \A i \in Submitted("create") :
    /\ RunWallet \in GeneratedKeys
    /\ RunStakeAccount \in GeneratedKeys \ {RunWallet}
    /\ submitted[i].authorized.staker = RunWallet
    /\ submitted[i].authorized.withdrawer = RunWallet
    /\ submitted[i].lockup.epoch = 0
    /\ submitted[i].lockup.unixTimestamp = 0
    /\ submitted[i].lockup.custodian = RunWallet
    /\ submitted[i].fromPubkey = RunWallet
    /\ submitted[i].stakePubkey = RunStakeAccount

C7_Witness ==
  /\ Submitted("create") # {}
  /\ chainStake.exists
  /\ chainStake.withdrawer = RunWallet
  /\ chainStake.custodian = RunWallet

\* C8: the delegate, deactivate and withdraw transactions name the wallet as
\* the authorized key and are signed by the wallet alone; the run submits no
\* other kind of transaction; and the stake account, while it exists, has the
\* wallet as its stake and as its withdraw authority.
C8_WalletIsSoleAuthority ==
  /\ \A i \in 1..Len(submitted) :
       /\ submitted[i].kind \in {"create", "delegate", "deactivate", "withdraw"}
       /\ submitted[i].kind # "create" =>
            /\ submitted[i].authorizedPubkey = RunWallet
            /\ submitted[i].signers = {RunWallet}
  /\ chainStake.exists => chainStake.staker = RunWallet /\ chainStake.withdrawer = RunWallet

C8_Witness ==
  /\ Len(submitted) = 4
  /\ Len(confirmed) = 3
  /\ chainStake.exists
  /\ chainStake.deactivationEpoch # NoEpoch

\* C9: while delegateStake holds its snapshot, the vote key of the delegate
\* transaction is the key of the address of the first entry of the snapshot's
\* current list, and the snapshot was fetched after the create transaction
\* was confirmed.
C9_SelectsFirstCurrent ==
  \A i \in Submitted("delegate") :
    validators # <<>> =>
      /\ Len(validators[1].current) >= 1
      /\ ValidAddress(validators[1].current[1].votePubkey)
      /\ Base58Encode(submitted[i].votePubkey) = validators[1].current[1].votePubkey
      /\ Len(submitted[i].votePubkey) = KeyLen
      /\ \E c \in 1..Len(calls), v \in 1..Len(calls) :
           /\ calls[c] = "createStakeAccount.sendAndConfirmTransaction"
           /\ calls[v] = "delegateStake.getVoteAccounts"
           /\ c < v
      /\ confirmed[1].kind = "create"

C9_Witness ==
  /\ Submitted("delegate") # {}
  /\ validators # <<>>
  /\ Len(validators[1].current) = 2
  /\ LifecycleState = "Delegated"

\* the bytes of account a from offset MEMCMP_OFFSET are those of key
HasKeyAtOffset(a, key) ==
  \A i \in 1..Len(key) : DataByte(a, MEMCMP_OFFSET + i - 1) = key[i]

\* C10: the accounts the scan gets are exactly the listed accounts whose
\* data is DATA_SIZE bytes long and holds every byte of the queried key from
\* offset MEMCMP_OFFSET on, in the order listed.
C10_ScanMatchesExactly ==
  scanLog # <<>> =>
    /\ accounts = SelectSeq(programAccounts,
                            LAMBDA a : a.size = DATA_SIZE /\ HasKeyAtOffset(a, VOTE_PUB_KEY))
    /\ Len(VOTE_PUB_KEY) = KeyLen
    /\ scanLog[1].key = VOTE_PUB_KEY

\* a record of another length holding the key is left out while a matching
\* record is returned
C10_Witness ==
  /\ scanLog # <<>>
  /\ Len(accounts) = 1
  /\ \E i \in 1..Len(programAccounts) :
       /\ programAccounts[i].size # DATA_SIZE
       /\ HasKeyAtOffset(programAccounts[i], VOTE_PUB_KEY)

\* C11: a scan that finds no account ends without an error, logs the count 0
\* and logs no sample; a scan that finds accounts logs their number and, as
\* the sample, the first of them.
C11_ScanReportsCountAndSample ==
  \A i \in 1..Len(scanLog) :
    /\ errorLog = <<>>
    /\ scanLog[i].count = Len(accounts)
    /\ (Len(accounts) = 0 => scanLog[i].count = 0 /\ scanLog[i].sample = <<>>)
    /\ (Len(accounts) > 0 => scanLog[i].sample = <<accounts[1]>>)
    /\ pc \in {"exit", "crashed"}

\* the cluster lists accounts, none of them matches
C11_Witness ==
  /\ scanLog # <<>>
  /\ Len(programAccounts) = MaxAccounts
  /\ accounts = <<>>
  /\ scanLog[1].count = 0

\* C12: when the snapshot delegateStake gets has an empty current list, the
\* run ends with the lookup failure of validator selection, logged by
\* runMain's catch: the create transaction is confirmed, no other transaction
\* was or is submitted, and no validator is selected.
C12_EmptyCurrentFailsAtSelection ==
  (validators # <<>> /\ validators[1].current = <<>>) =>
    /\ errorLog = <<"d_select">>
    /\ pc = "exit"
    /\ stack = <<>>
    /\ [i \in 1..Len(submitted) |-> submitted[i].kind] = <<"create">>
    /\ confirmed = submitted
    /\ LifecycleState = "Created"
    /\ selectedValidatorPublicKey = NoKey
    /\ results["delegateStake"] = <<>>
    /\ Last(calls) = "delegateStake.getVoteAccounts"

C12_Witness ==
  /\ flow = "withdraw_stake"
  /\ validators # <<>>
  /\ validators[1].current = <<>>
  /\ errorLog = <<"d_select">>
  /\ pc = "exit"

\* C13: the standalone scan script, when no network call of it has failed,
\* ends having issued the getProgramAccounts query and logged a count.
C13_StandaloneScanReachesQuery ==
  (flow = "get_delegators_by_validator" /\ pc = "exit" /\ rejected = <<>>) =>
    /\ \E i \in 1..Len(calls) : calls[i] = "getDelegatorsByValidator.getProgramAccounts"
    /\ Len(scanLog) = 1
    /\ errorLog = <<>>

\* the balance queries withdrawStake has made after its transaction
PostWithdrawReads == {j \in 1..Len(balanceReads) : balanceReads[j].by = "w_postBalance"}

\* C14: when nobody else has transferred lamports to the stake account, the
\* balance withdrawStake reads after its transaction is read with all four
\* transactions confirmed, and is zero.
C14_PostWithdrawBalanceIsZero ==
  deposits = 0 =>
    \A j \in PostWithdrawReads :
      /\ balanceReads[j].after = Len(LifecycleOrder)
      /\ [i \in 1..Len(confirmed) |-> confirmed[i].kind] = LifecycleOrder
      /\ balanceReads[j].value = 0

\* the account was created with a rent-exemption minimum above zero
C14_Witness ==
  /\ PostWithdrawReads # {}
  /\ deposits = 0
  /\ clusterRent > 0
  /\ submitted[4].lamports = clusterRent + (LAMPORTS_PER_SOL \div 2)

\* C15: the state logged for the status query of delegateStake is a state of
\* the delegated account (activating, or active once an epoch has passed),
\* never one that the deactivate transaction of the run has produced.
C15_DelegateStatusIsPreDeactivation ==
  \A i \in 1..Len(statusLog) :
    statusLog[i].by = "d_getStatus" => statusLog[i].state \in {"activating", "active"}

ScanCall == "getDelegatorsByValidator.getProgramAccounts"
CallsOf(op) == {i \in 1..Len(calls) : calls[i] = op}
ConfirmedKinds == [i \in 1..Len(confirmed) |-> confirmed[i].kind]

\* C16: in the combined flow the first call is the validator listing; the
\* scan function is entered, and its query issued, only with all four
\* lifecycle transactions confirmed and no failure of any call before it; the
\* scan query is the last call; and its key is the vote key delegateStake
\* selected and put into the delegate transaction.
C16_CombinedFlowOrder ==
  flow = "index" =>
    /\ (calls # <<>> => CallsOf("getValidators.getVoteAccounts") = {1})
    /\ (ConfirmedKinds # LifecycleOrder => CallsOf(ScanCall) = {} /\ scanLog = <<>>)
    /\ ((rejected # <<>> /\ rejected # <<"s_getProgramAccounts">>) => CallsOf(ScanCall) = {})
    /\ (errorLog # <<>> /\ errorLog # <<"s_getProgramAccounts">>) => CallsOf(ScanCall) = {}
    /\ (pc \in {"main_getDelegators", "getDelegatorsByValidator", "s_getProgramAccounts"} =>
          /\ ConfirmedKinds = LifecycleOrder
          /\ results["withdrawStake"] # <<>>
          /\ mainSelected = submitted[2].votePubkey)
    /\ \A s \in CallsOf(ScanCall) :
         /\ s = Len(calls)
         /\ VOTE_PUB_KEY = submitted[2].votePubkey
         /\ VOTE_PUB_KEY = selectedValidatorPublicKey
         /\ Len(VOTE_PUB_KEY) = KeyLen
    /\ \A i \in 1..Len(scanLog) : scanLog[i].key = submitted[2].votePubkey

\* the scan of the combined flow is done, for a key other than the first
C16_Witness ==
  /\ flow = "index"
  /\ scanLog # <<>>
  /\ pc = "exit"
  /\ scanLog[1].key = submitted[2].votePubkey
  /\ Base58Encode(scanLog[1].key) # 0

\* C17: what each lifecycle function returns, and what its caller takes from
\* it, holds the wallet and the stake account createStakeAccount generated;
\* what delegateStake, deactivateStake and withdrawStake return holds the
\* vote key delegateStake selected; every transaction of the run names that
\* stake account.
C17_LifecycleStateOnlyExtended ==
  /\ \A f \in StageFns :
       /\ results[f] # <<>> =>
            /\ results[f][1].wallet = RunWallet
            /\ results[f][1].stakeAccount = RunStakeAccount
            /\ RunWallet # NoKey /\ RunStakeAccount # NoKey
            /\ f # "createStakeAccount" =>
                 /\ results[f][1].selectedValidatorPublicKey = selectedValidatorPublicKey
                 /\ results[f][1].selectedValidatorPublicKey = submitted[2].votePubkey
       /\ (f # "createStakeAccount" /\ frames[f] # NoKeys) =>
            frames[f] = frames["createStakeAccount"]
  /\ \A i \in 1..Len(submitted) : submitted[i].stakePubkey = RunStakeAccount
  /\ mainSelected # NoKey => mainSelected = submitted[2].votePubkey

C17_Witness ==
  /\ results["withdrawStake"] # <<>>
  /\ ConfirmedKinds = LifecycleOrder
  /\ results["withdrawStake"][1].selectedValidatorPublicKey = confirmed[2].votePubkey
  /\ results["withdrawStake"][1].stakeAccount = confirmed[4].stakePubkey

SendCalls ==
  {"createStakeAccount.sendAndConfirmTransaction", "delegateStake.sendAndConfirmTransaction",
   "deactivateStake.sendAndConfirmTransaction", "withdrawStake.sendAndConfirmTransaction"}

\* C18: no kind of lifecycle transaction is submitted twice and the airdrop is
\* requested at most once; and once the airdrop, its confirmation or a
\* transaction has failed, the failed transaction is the last one submitted:
\* nothing is submitted after it.
C18_SubmittedAtMostOnce ==
  /\ \A k \in {LifecycleOrder[i] : i \in 1..Len(LifecycleOrder)} :
       Cardinality(Submitted(k)) <= 1
  /\ Len(airdrops) <= 1
  /\ \A op \in SendCalls \cup {"createStakeAccount.requestAirdrop"} :
       Cardinality(CallsOf(op)) <= 1
  /\ Len(rejected) <= 1
  /\ FailedSubmitOrConfirm =>
       /\ Len(submitted) = Len(confirmed) + (IF rejected[1] = "c_confirmTransaction" THEN 0 ELSE 1)
       /\ pc \in {"exit", "crashed"}
  /\ (rejected = <<"c_requestAirdrop">> \/ rejected = <<"c_confirmTransaction">>) =>
       submitted = <<>> /\ Len(airdrops) = 1

\* the withdraw transaction has failed and the run is over
C18_Witness ==
  /\ rejected = <<"w_sendWithdraw">>
  /\ Len(submitted) = 4
  /\ Len(confirmed) = 3
  /\ pc = "exit"

\* the wait for the airdrop's confirmation has returned
AirdropWaitReturned ==
  /\ CallsOf("createStakeAccount.confirmTransaction") # {}
  /\ ~(pc = "c_confirmTransaction" /\ awaiting)
  /\ \A i \in 1..Len(rejected) : rejected[i] # "c_confirmTransaction"

\* C19: the airdrop asks for 1 * LAMPORTS_PER_SOL for the wallet of the run;
\* the stake key pair is generated, the rent-exemption minimum is asked for
\* and the create transaction is submitted only when the wait for the
\* airdrop's confirmation has returned.
C19_AirdropThenCreate ==
  /\ \A i \in 1..Len(airdrops) :
       /\ airdrops[i].lamports = 1 * LAMPORTS_PER_SOL
       /\ airdrops[i].to = RunWallet
  /\ (\/ RunStakeAccount # NoKey
      \/ CallsOf("createStakeAccount.getMinimumBalanceForRentExemption") # {}
      \/ minimumRent # 0
      \/ Submitted("create") # {}) =>
       /\ AirdropWaitReturned
       /\ Len(airdrops) = 1
       /\ \E a \in CallsOf("createStakeAccount.requestAirdrop"),
             c \in CallsOf("createStakeAccount.confirmTransaction"),
             r \in CallsOf("createStakeAccount.getMinimumBalanceForRentExemption") :
            a < c /\ c < r /\
            \A t \in CallsOf("createStakeAccount.sendAndConfirmTransaction") : r < t

\* the create transaction is confirmed, paid from the airdrop
C19_Witness ==
  /\ Submitted("create") # {}
  /\ LifecycleState = "Created"
  /\ walletLamports = 1 * LAMPORTS_PER_SOL - submitted[1].lamports
====
